---- MODULE Spec2Model ----
(***************************************************************************)
(* Model of index.js: an Express server with registration, login, a       *)
(* session-gated discover page, logout and a profile page.                 *)
(*                                                                         *)
(* One request is one slot of `reqs`.  A slot moves by event-loop turns:   *)
(* the session middleware reads the session store when the request        *)
(* arrives, the route handler runs in a later turn, and every `await`     *)
(* (bcrypt, the database) and the destroy callback is a later turn again. *)
(* A database statement is executed atomically in the turn that receives  *)
(* its result.  Requests of any clients interleave freely between turns.  *)
(***************************************************************************)
EXTENDS Integers, FiniteSets, Sequences, TLC

\* ------------------------------------------------------------------ bounds
\* session ids issued to one client
MaxSid == 1

\* ------------------------------------------------------------ input domains
Users == {"alice", "bob"}
Passwords == {"pw1", "wrong"}
Undefined == "undefined"
Clients == {"c1", "c2"}
Reqs == {"r1", "r2"}
\* session ids: unguessable, so an id is only ever presented by the client it
\* was issued to; the n-th id issued to client c is <<c, n>>
Sids == Clients \X (1 .. MaxSid)
\* the id of a session the store does not hold yet (or no cookie)
NoSid == <<"", 0>>
\* the salts bcrypt may generate
Salts == {1}

PublicRoutes == {"GET /", "GET /login", "GET /register"}
PostRoutes == {"POST /register", "POST /login"}
GatedRoutes == {"GET /discover", "GET /logout", "GET /profile"}
Routes == PublicRoutes \cup PostRoutes \cup GatedRoutes

\* --------------------------------------------------------------- the values
\* bcrypt output: the salt in clear and a digest of salt and password
NoHash == [salt |-> 0, digest |-> 0]
\* `undefined` where a users row is expected
NoUser == [username |-> "", password |-> NoHash]
\* req.body of a request without form fields
NoBody == [username |-> "", password |-> ""]
\* an unused session-store key
Absent == [present |-> FALSE, user |-> NoUser]
\* req.session after `delete req.session`
NoSession == [id |-> NoSid, user |-> NoUser, live |-> FALSE]
\* no answer yet; `hash` is the password hash among the data handed to a
\* rendered page (NoHash: none)
NoResp == [kind |-> "none", status |-> 0, target |-> "", view |-> "",
           message |-> "", error |-> FALSE, username |-> "",
           hash |-> NoHash]
IdleReq == [pc |-> "idle", client |-> "", route |-> "", body |-> NoBody,
            sess |-> NoSession, local |-> NoUser, err |-> "",
            resp |-> NoResp]

\* res.redirect(target)
Redirect(target) ==
    [kind |-> "redirect", status |-> 302, target |-> target, view |-> "",
     message |-> "", error |-> FALSE, username |-> "",
     hash |-> NoHash]

\* res.render(view, {message, error, username})
Render(view, message, error, username) ==
    [kind |-> "render", status |-> 200, target |-> "", view |-> view,
     message |-> message, error |-> error, username |-> username,
     hash |-> NoHash]

\* res.status(status).send(text)
Send(status, text) ==
    [kind |-> "send", status |-> status, target |-> "", view |-> "",
     message |-> text, error |-> FALSE, username |-> "",
     hash |-> NoHash]

\* ------------------------------------------------------------------ bcrypt
PwCode(pw) == CASE pw = "pw1" -> 1 [] pw = "wrong" -> 2 [] OTHER -> 0
Radix == Cardinality(Passwords) + 1

\* the digest bcrypt derives from a salt and a plaintext
BcryptDigest(salt, pw) == salt * Radix + ((PwCode(pw) + salt) % Radix)

\* bcrypt.hash rejects when the plaintext is not a string
BcryptHashThrows(pw) == pw = Undefined

\* bcrypt.hash(password, 10) with the salt it generated
BcryptHash(pw, salt) == [salt |-> salt, digest |-> BcryptDigest(salt, pw)]

\* bcrypt.compare rejects when the plaintext is not a string
BcryptCompareThrows(pw) == pw = Undefined

\* a compare that accepts any plaintext for a well-formed hash
BcryptCompare_AnyPlaintext(pw, hash) == hash.salt \in Salts

\* bcrypt.compare(password, hash): re-hash with the stored salt
BcryptCompare(pw, hash) == BcryptDigest(hash.salt, pw) = hash.digest

VARIABLES
    users,      \* the users table: a set of rows {username, password}
    sessions,   \* the session store: sid -> stored session
    nextSid,    \* per client, the number of the next session id issued to it
    cookie,     \* each client's session cookie (NoSid: none)
    reqs,       \* the requests in flight
    firstReg,   \* history: the plaintext each username was first registered with
    loginDone,  \* history: the client has completed a successful POST /login
    lastLogin   \* history: per session id, the username of the last POST /login
                \* that succeeded on it ("": none yet)

vars ==
    <<users, sessions, nextSid, cookie, reqs, firstReg, loginDone, lastLogin>>

\* ------------------------------------------------------------- the database
\* the unique index on users.username
UsernameTaken(tbl, username) == \E row \in tbl : row.username = username

\* an insert that overlooks the conflict (as with ON CONFLICT DO NOTHING)
InsertRejects_NoConflict(tbl, username, down) == down

\* db.none('INSERT INTO users ...') rejects: store down or unique violation
InsertRejects(tbl, username, down) == down \/ UsernameTaken(tbl, username)

\* an insert that replaces the rows of the table
InsertUser_Replace(tbl, username, hash) ==
    {[username |-> username, password |-> hash]}

\* an insert that writes no row
InsertUser_NoRow(tbl, username, hash) == tbl

\* INSERT INTO users(username, password) VALUES($1, $2)
InsertUser(tbl, username, hash) ==
    tbl \cup {[username |-> username, password |-> hash]}

\* SELECT * FROM users WHERE username = $1
SelectRows(tbl, username) == {row \in tbl : row.username = username}

\* db.oneOrNone rejects: store down, or more than one row returned
SelectRejects(tbl, username, down) ==
    down \/ Cardinality(SelectRows(tbl, username)) > 1

\* a lookup that makes up a row for a username the table does not hold
SelectUser_Guest(tbl, username) ==
    IF SelectRows(tbl, username) = {}
    THEN [username |-> username,
          password |-> BcryptHash("pw1", CHOOSE salt \in Salts : TRUE)]
    ELSE CHOOSE row \in SelectRows(tbl, username) : TRUE

\* db.oneOrNone resolves with the row, or with null
SelectUser(tbl, username) ==
    IF SelectRows(tbl, username) = {} THEN NoUser
    ELSE CHOOSE row \in SelectRows(tbl, username) : TRUE

\* -------------------------------------------------------- the session store
\* the session middleware on arrival: the stored session of the cookie's id,
\* or a fresh empty session (id NoSid: generated, not yet in the store)
LoadSession(store, sid) ==
    IF sid \in Sids /\ store[sid].present
    THEN [id |-> sid, user |-> store[sid].user, live |-> TRUE]
    ELSE [id |-> NoSid, user |-> NoUser, live |-> TRUE]

\* a save that never reaches the store
SaveSession_Lost(store, sid, user) == store

\* a save that runs before the user record is put in the session
SaveSession_BeforeUser(store, sid, user) ==
    [store EXCEPT ![sid] = [present |-> TRUE, user |-> NoUser]]

\* req.session.save(): the in-memory store writes the session at once
SaveSession(store, sid, user) ==
    [store EXCEPT ![sid] = [present |-> TRUE, user |-> user]]

\* a destroy that leaves the session in the store
DestroySession_Keep(store, sid, err) == store

\* a destroy that ends every session of the user of the session
DestroySession_EveryDevice(store, sid, err) ==
    IF err THEN store
    ELSE [s \in Sids |-> IF store[s].user = store[sid].user
                         THEN Absent ELSE store[s]]

\* a destroy that writes an empty session back when the id is already gone
DestroySession_Recreate(store, sid, err) ==
    IF err THEN store
    ELSE IF store[sid].present THEN [store EXCEPT ![sid] = Absent]
    ELSE [store EXCEPT ![sid] = [present |-> TRUE, user |-> NoUser]]

\* req.session.destroy(cb): the store deletes the session unless it fails
DestroySession(store, sid, err) ==
    IF err THEN store ELSE [store EXCEPT ![sid] = Absent]

\* the id a request's session is stored under
SessionId(sess, fresh) == IF sess.id = NoSid THEN fresh ELSE sess.id

\* ---------------------------------------------------- the handlers' answers
\* a gate that lets every request through
AuthPasses_Open(sess) == TRUE

\* const auth = (req, res, next) => ...: TRUE when next() is called
AuthPasses(sess) == sess.user # NoUser

\* the gate's answer when it stops the request
AuthRedirect == Redirect("/login")

\* the landing routes registered after the gate, for a client without a
\* session user
PublicResponse_Gated(route) == Redirect("/login")

\* GET /, GET /login, GET /register
PublicResponse(route) ==
    CASE route = "GET /" -> Redirect("/login")
      [] route = "GET /login" -> Render("pages/login", "", FALSE, "")
      [] OTHER -> Render("pages/register", "", FALSE, "")

RegisterSuccess == Redirect("/login")
RegisterFailure == Redirect("/register")

\* an unknown username sent on to the registration page
LoginNotFound_Redirect == Redirect("/register")

\* the answer to an unknown username
LoginNotFound ==
    Render("pages/login", "Username not found. Please register.", TRUE, "")
LoginMismatch ==
    Render("login", "Incorrect username or password.", TRUE, "")
LoginSuccess == Redirect("/discover")
\* a catch block that hands the error to the client
LoginError_Leak == Send(500, "Login error: connection refused")

\* the answer of the catch block of app.post('/login')
LoginError ==
    Render("pages/login", "An error occurred during login. Please try again.",
           TRUE, "")

DiscoverResponse == Render("pages/discover", "", FALSE, "")

\* a destroy callback that overlooks its error argument
LogoutResponse_IgnoreErr(err) ==
    Render("pages/logout", "Logged out Successfully", FALSE, "")

\* the callback of req.session.destroy in app.get('/logout')
LogoutResponse(err) ==
    IF err THEN Send(500, "Could not log out.")
    ELSE Render("pages/logout", "Logged out Successfully", FALSE, "")

\* a profile page that is handed the whole user record of the session
ProfileResponse_WholeUser(sess, renderThrows) ==
    IF sess.user = NoUser THEN Send(401, "Not authenticated")
    ELSE IF renderThrows THEN Send(500, "Internal Server Error")
    ELSE [Render("pages/profile", "", FALSE, sess.user.username)
             EXCEPT !.hash = sess.user.password]

\* a profile page that is handed no username
ProfileResponse_NoUsername(sess, renderThrows) ==
    IF sess.user = NoUser THEN Send(401, "Not authenticated")
    ELSE IF renderThrows THEN Send(500, "Internal Server Error")
    ELSE Render("pages/profile", "", FALSE, "")

\* the body of app.get('/profile')
ProfileResponse(sess, renderThrows) ==
    IF sess.user = NoUser THEN Send(401, "Not authenticated")
    ELSE IF renderThrows THEN Send(500, "Internal Server Error")
    ELSE Render("pages/profile", "", FALSE, sess.user.username)

\* ------------------------------------------------------------------- states
TypeOK ==
    /\ users \subseteq [username : Users,
                        password : [salt : Salts, digest : Nat]]
    /\ \A r \in Reqs :
          /\ reqs[r].pc \in {"idle", "loaded", "inserting", "comparing",
                              "destroying", "done"}
          /\ reqs[r].err \in {"", "hash", "store", "render", "destroy"}
          /\ reqs[r].resp.kind \in {"none", "redirect", "render", "send"}
    /\ sessions \in [Sids -> [present : BOOLEAN,
                              user : {NoUser} \cup users]]
    /\ nextSid \in [Clients -> 1 .. MaxSid + 1]
    /\ cookie \in [Clients -> Sids \cup {NoSid}]
    /\ DOMAIN reqs = Reqs
    /\ firstReg \in [Users -> Passwords \cup {""}]
    /\ loginDone \in [Clients -> BOOLEAN]
    /\ lastLogin \in [Sids -> Users \cup {""}]

Init ==
    /\ users = {}
    /\ sessions = [s \in Sids |-> Absent]
    /\ nextSid = [c \in Clients |-> 1]
    /\ cookie = [c \in Clients |-> NoSid]
    /\ reqs = [r \in Reqs |-> IdleReq]
    /\ firstReg = [u \in Users |-> ""]
    /\ loginDone = [c \in Clients |-> FALSE]
    /\ lastLogin = [s \in Sids |-> ""]

Bodies(route) ==
    IF route \in PostRoutes
    THEN [username : Users, password : Passwords \cup {Undefined}]
    ELSE {NoBody}

\* logins in flight whose session is fresh: each will take a new session id
FreshLogins(c) ==
    {q \in Reqs : /\ reqs[q].pc \in {"loaded", "comparing"}
                  /\ reqs[q].client = c
                  /\ reqs[q].route = "POST /login"
                  /\ reqs[q].sess.id = NoSid}

\* an answered request stays in its slot, as the record of its answer, for
\* one step: the server takes its next turn once the answer is delivered
NoAnswerPending == \A q \in Reqs : reqs[q].pc # "done"

\* the request is answered; `err` names what was thrown or reported to the
\* handler ("": nothing), and the handler's locals are gone
Done(r, err, resp) ==
    [reqs EXCEPT ![r].pc = "done", ![r].resp = resp,
                 ![r].local = NoUser, ![r].err = err]


\* a request for a route that reads req.session arrives: the session
\* middleware loads the session of the client's cookie
Arrive(r, c, route, body) ==
    /\ reqs[r].pc = "idle"
    /\ NoAnswerPending
    /\ route \in GatedRoutes \cup {"POST /login"}
    /\ (route = "POST /login" /\ LoadSession(sessions, cookie[c]).id = NoSid)
          => nextSid[c] + Cardinality(FreshLogins(c)) <= MaxSid
    /\ reqs' = [reqs EXCEPT ![r] =
                  [pc |-> "loaded", client |-> c, route |-> route,
                   body |-> body, sess |-> LoadSession(sessions, cookie[c]),
                   local |-> NoUser, err |-> "", resp |-> NoResp]]
    /\ UNCHANGED <<users, sessions, nextSid, cookie, firstReg, loginDone,
                 lastLogin>>

\* app.get('/'), app.get('/login'), app.get('/register'): the handler reads
\* neither req.session nor the database, and answers as the request arrives
Public(r, c, route) ==
    /\ reqs[r].pc = "idle"
    /\ NoAnswerPending
    /\ route \in PublicRoutes
    /\ reqs' = [reqs EXCEPT ![r] =
                  [pc |-> "done", client |-> c, route |-> route,
                   body |-> NoBody, sess |-> NoSession, local |-> NoUser,
                   err |-> "", resp |-> PublicResponse(route)]]
    /\ UNCHANGED <<users, sessions, nextSid, cookie, firstReg, loginDone,
                 lastLogin>>

\* app.post('/register') up to the end of `await bcrypt.hash`: the handler has
\* read nothing but the request so far
RegisterHash(r, c, body, salt) ==
    /\ reqs[r].pc = "idle"
    /\ NoAnswerPending
    /\ reqs' = [reqs EXCEPT ![r] =
                  IF BcryptHashThrows(body.password)
                  THEN [pc |-> "done", client |-> c,
                        route |-> "POST /register", body |-> body,
                        sess |-> NoSession, local |-> NoUser, err |-> "hash",
                        resp |-> RegisterFailure]
                  ELSE [pc |-> "inserting", client |-> c,
                        route |-> "POST /register", body |-> body,
                        sess |-> NoSession,
                        local |-> [username |-> body.username,
                                   password |->
                                       BcryptHash(body.password, salt)],
                        err |-> "", resp |-> NoResp]]
    /\ UNCHANGED <<users, sessions, nextSid, cookie, firstReg, loginDone,
                 lastLogin>>

\* app.post('/register') from `await db.none` to its redirect
RegisterInsert(r, down) ==
    /\ reqs[r].pc = "inserting"
    /\ NoAnswerPending
    /\ IF InsertRejects(users, reqs[r].body.username, down)
       THEN /\ reqs' = Done(r, "store", RegisterFailure)
            /\ UNCHANGED <<users, firstReg>>
       ELSE /\ users' = InsertUser(users, reqs[r].body.username,
                                   reqs[r].local.password)
            /\ reqs' = Done(r, "", RegisterSuccess)
            /\ firstReg' =
                 IF firstReg[reqs[r].body.username] = ""
                 THEN [firstReg EXCEPT ![reqs[r].body.username] =
                                           reqs[r].body.password]
                 ELSE firstReg
    /\ UNCHANGED <<sessions, nextSid, cookie, loginDone, lastLogin>>

\* app.post('/login') up to the end of `await db.oneOrNone`
LoginLookup(r, down) ==
    /\ reqs[r].pc = "loaded"
    /\ NoAnswerPending
    /\ reqs[r].route = "POST /login"
    /\ reqs' =
         IF SelectRejects(users, reqs[r].body.username, down)
         THEN Done(r, "store", LoginError)
         ELSE IF SelectUser(users, reqs[r].body.username) = NoUser
         THEN Done(r, "", LoginNotFound)
         ELSE [reqs EXCEPT ![r].pc = "comparing",
                           ![r].local =
                               SelectUser(users, reqs[r].body.username)]
    /\ UNCHANGED <<users, sessions, nextSid, cookie, firstReg, loginDone,
                 lastLogin>>

\* app.post('/login') from `await bcrypt.compare` to its answer
LoginCompare(r) ==
    /\ reqs[r].pc = "comparing"
    /\ NoAnswerPending
    /\ IF BcryptCompareThrows(reqs[r].body.password)
       THEN /\ reqs' = Done(r, "hash", LoginError)
            /\ UNCHANGED <<sessions, nextSid, cookie, loginDone, lastLogin>>
       ELSE IF ~BcryptCompare(reqs[r].body.password, reqs[r].local.password)
       THEN /\ reqs' = Done(r, "", LoginMismatch)
            /\ UNCHANGED <<sessions, nextSid, cookie, loginDone, lastLogin>>
       ELSE LET c == reqs[r].client
                sid == SessionId(reqs[r].sess, <<c, nextSid[c]>>) IN
            /\ sessions' = SaveSession(sessions, sid, reqs[r].local)
            /\ nextSid' = IF reqs[r].sess.id = NoSid
                          THEN [nextSid EXCEPT ![c] = nextSid[c] + 1]
                          ELSE nextSid
            /\ cookie' = IF reqs[r].sess.id = NoSid
                         THEN [cookie EXCEPT ![c] = sid]
                         ELSE cookie
            /\ reqs' = [reqs EXCEPT
                          ![r].pc = "done",
                          ![r].sess = [id |-> sid, user |-> reqs[r].local,
                                       live |-> TRUE],
                          ![r].local = NoUser,
                          ![r].resp = LoginSuccess]
            /\ loginDone' = [loginDone EXCEPT ![reqs[r].client] = TRUE]
            /\ lastLogin' = [lastLogin EXCEPT ![sid] = reqs[r].body.username]
    /\ UNCHANGED <<users, firstReg>>

\* app.use(auth); app.use('/discover', auth); app.get('/discover')
Discover(r) ==
    /\ reqs[r].pc = "loaded"
    /\ NoAnswerPending
    /\ reqs[r].route = "GET /discover"
    /\ reqs' = IF AuthPasses(reqs[r].sess)
               THEN Done(r, "", DiscoverResponse)
               ELSE Done(r, "", AuthRedirect)
    /\ UNCHANGED <<users, sessions, nextSid, cookie, firstReg, loginDone,
                 lastLogin>>

\* app.use(auth); app.get('/profile')
Profile(r, renderThrows) ==
    /\ reqs[r].pc = "loaded"
    /\ NoAnswerPending
    /\ reqs[r].route = "GET /profile"
    /\ reqs' = IF AuthPasses(reqs[r].sess)
               THEN Done(r, IF renderThrows THEN "render" ELSE "",
                         ProfileResponse(reqs[r].sess, renderThrows))
               ELSE Done(r, "", AuthRedirect)
    /\ UNCHANGED <<users, sessions, nextSid, cookie, firstReg, loginDone,
                 lastLogin>>

\* app.use(auth); app.get('/logout') up to req.session.destroy
LogoutDestroy(r, err) ==
    /\ reqs[r].pc = "loaded"
    /\ NoAnswerPending
    /\ reqs[r].route = "GET /logout"
    /\ IF AuthPasses(reqs[r].sess)
       THEN /\ sessions' = DestroySession(sessions, reqs[r].sess.id, err)
            /\ reqs' = [reqs EXCEPT
                          ![r].pc = "destroying",
                          ![r].err = IF err THEN "destroy" ELSE "",
                          ![r].sess = [id |-> reqs[r].sess.id,
                                       user |-> NoUser, live |-> FALSE]]
       ELSE /\ reqs' = Done(r, "", AuthRedirect)
            /\ UNCHANGED sessions
    /\ UNCHANGED <<users, nextSid, cookie, firstReg, loginDone, lastLogin>>

\* a destroy callback that only logs the error and returns
LogoutCallback_Silent(r) ==
    /\ reqs[r].pc = "destroying"
    /\ NoAnswerPending
    /\ reqs' = IF reqs[r].err # ""
               THEN [reqs EXCEPT ![r].pc = "ended"]
               ELSE Done(r, reqs[r].err, LogoutResponse(FALSE))
    /\ UNCHANGED <<users, sessions, nextSid, cookie, firstReg, loginDone,
                   lastLogin>>

\* the callback of req.session.destroy
LogoutCallback(r) ==
    /\ reqs[r].pc = "destroying"
    /\ NoAnswerPending
    /\ reqs' = Done(r, reqs[r].err, LogoutResponse(reqs[r].err # ""))
    /\ UNCHANGED <<users, sessions, nextSid, cookie, firstReg, loginDone,
                 lastLogin>>

\* the answer has been delivered; the slot takes the next request
Finish(r) ==
    /\ reqs[r].pc = "done"
    /\ reqs' = [reqs EXCEPT ![r] = IdleReq]
    /\ UNCHANGED <<users, sessions, nextSid, cookie, firstReg, loginDone,
                 lastLogin>>

Next ==
    \/ \E r \in Reqs, c \in Clients, route \in Routes :
          \E body \in Bodies(route) : Arrive(r, c, route, body)
    \/ \E r \in Reqs, c \in Clients, route \in Routes : Public(r, c, route)
    \/ \E r \in Reqs, c \in Clients, salt \in Salts :
          \E body \in Bodies("POST /register") : RegisterHash(r, c, body, salt)
    \/ \E r \in Reqs, down \in BOOLEAN : RegisterInsert(r, down)
    \/ \E r \in Reqs, down \in BOOLEAN : LoginLookup(r, down)
    \/ \E r \in Reqs : LoginCompare(r)
    \/ \E r \in Reqs : Discover(r)
    \/ \E r \in Reqs, renderThrows \in BOOLEAN : Profile(r, renderThrows)
    \/ \E r \in Reqs, err \in BOOLEAN : LogoutDestroy(r, err)
    \/ \E r \in Reqs : LogoutCallback(r)
    \/ \E r \in Reqs : Finish(r)

Spec == Init /\ [][Next]_vars

\* the requests of one browser: the inputs of the
\* specification with fairness
LiveClients == {"c1"}
LiveUsers == Users
LiveBodies(route) == {b \in Bodies(route) : b.username \in LiveUsers \cup {""}}

LiveNext ==
    \/ \E r \in Reqs, c \in LiveClients, route \in Routes :
          \E body \in LiveBodies(route) : Arrive(r, c, route, body)
    \/ \E r \in Reqs, c \in LiveClients, route \in Routes :
          Public(r, c, route)
    \/ \E r \in Reqs, c \in LiveClients, salt \in Salts :
          \E body \in LiveBodies("POST /register") :
             RegisterHash(r, c, body, salt)
    \/ \E r \in Reqs, down \in BOOLEAN : RegisterInsert(r, down)
    \/ \E r \in Reqs, down \in BOOLEAN : LoginLookup(r, down)
    \/ \E r \in Reqs : LoginCompare(r)
    \/ \E r \in Reqs : Discover(r)
    \/ \E r \in Reqs, renderThrows \in BOOLEAN : Profile(r, renderThrows)
    \/ \E r \in Reqs, err \in BOOLEAN : LogoutDestroy(r, err)
    \/ \E r \in Reqs : LogoutCallback(r)
    \/ \E r \in Reqs : Finish(r)

\* the continuation of request r that is ready to run: the one after the
\* session is loaded, after an awaited database or bcrypt call settles, or
\* after the session store has run the destroy
Continue(r) ==
    \/ \E down \in BOOLEAN : RegisterInsert(r, down)
    \/ \E down \in BOOLEAN : LoginLookup(r, down)
    \/ LoginCompare(r)
    \/ Discover(r)
    \/ \E renderThrows \in BOOLEAN : Profile(r, renderThrows)
    \/ \E err \in BOOLEAN : LogoutDestroy(r, err)
    \/ LogoutCallback(r)

\* every awaited operation (the database, bcrypt, the session store) settles
\* and the event loop runs every continuation that is ready; an answer that
\* has been sent is delivered
Fairness == \A r \in Reqs : SF_vars(Continue(r)) /\ WF_vars(Finish(r))

FairSpec == Init /\ [][LiveNext]_vars /\ Fairness

\* ----------------------------------------------------------------- claims
\* request r has just been answered on `route`
Answered(r, route) == reqs[r].pc = "done" /\ reqs[r].route = route

\* request r is answered in this step
AnsweredNow(r, route) ==
    /\ reqs[r].pc # "done"
    /\ reqs'[r].pc = "done"
    /\ reqs'[r].route = route

\* sid holds a user record in the session store
HoldsUser(sid) ==
    sid \in Sids /\ sessions[sid].present /\ sessions[sid].user # NoUser

\* C1: every GET /discover of a request whose session holds no user record
\* is answered with a redirect to /login, the discover page is not rendered,
\* and the request changes nothing, so that repeating it gives the same.
C1_AuthGate ==
    [][\A r \in Reqs :
          (AnsweredNow(r, "GET /discover") /\ reqs[r].sess.user = NoUser)
             => /\ reqs'[r].resp = Redirect("/login")
                /\ reqs'[r].resp.view # "pages/discover"
                /\ UNCHANGED <<users, sessions, nextSid, cookie>>]_vars

C1_Witness ==
    \E r \in Reqs :
       /\ Answered(r, "GET /discover")
       /\ reqs[r].sess.user = NoUser
       /\ reqs[r].resp = Redirect("/login")
       /\ loginDone[reqs[r].client]

\* C2: no session of a client holds a user record before that client has
\* completed a successful POST /login, and when a POST /login of the client
\* has succeeded the session of that request is in the store, is one of that
\* client's, and holds a user record.
C2_LoginGating ==
    /\ \A sid \in Sids : HoldsUser(sid) => loginDone[sid[1]]
    /\ \A r \in Reqs :
          (Answered(r, "POST /login") /\ reqs[r].resp = Redirect("/discover"))
             => /\ HoldsUser(reqs[r].sess.id)
                /\ reqs[r].sess.id[1] = reqs[r].client
                /\ loginDone[reqs[r].client]

C2_Witness ==
    \E r \in Reqs :
       /\ Answered(r, "POST /login")
       /\ reqs[r].resp = Redirect("/discover")
       /\ HoldsUser(reqs[r].sess.id)
       /\ \E c \in Clients : ~loginDone[c] /\ \A n \in 1 .. MaxSid :
                                                  ~HoldsUser(<<c, n>>)

\* C3: for a username registered with password P and a submitted string Q,
\* a POST /login that meets no store or hasher failure stores a session user
\* and redirects to /discover exactly when Q = P; when Q # P the request
\* leaves the session store and its own session as they were.
C3_LoginIffPassword ==
    [][\A r \in Reqs :
          (/\ AnsweredNow(r, "POST /login")
           /\ firstReg[reqs[r].body.username] # ""
           /\ reqs[r].body.password \in Passwords
           /\ reqs'[r].err = "")
             => LET P == firstReg[reqs[r].body.username]
                    Q == reqs[r].body.password
                IN  /\ (reqs'[r].resp = Redirect("/discover")) <=> (Q = P)
                    /\ (Q = P) =>
                          /\ sessions'[reqs'[r].sess.id].present
                          /\ sessions'[reqs'[r].sess.id].user.username =
                                reqs[r].body.username
                    /\ (Q # P) =>
                          /\ sessions' = sessions
                          /\ reqs'[r].sess = reqs[r].sess]_vars

C3_Witness ==
    \E r \in Reqs :
       /\ Answered(r, "POST /login")
       /\ reqs[r].err = ""
       /\ firstReg[reqs[r].body.username] = "wrong"
       /\ reqs[r].body.password = "pw1"
       /\ reqs[r].resp.kind = "render"
       /\ reqs[r].sess.user # NoUser

\* C4: the users table holds at most one row per username, the row of a
\* username verifies the password it was first registered with and no other,
\* and a login that succeeds has submitted that first password.
C4_UniqueUsername ==
    /\ \A u \in Users : Cardinality(SelectRows(users, u)) <= 1
    /\ \A row \in users : \A q \in Passwords :
          BcryptCompare(q, row.password) <=> (q = firstReg[row.username])
    /\ \A r \in Reqs :
          (Answered(r, "POST /login") /\ reqs[r].resp = Redirect("/discover"))
             => reqs[r].body.password = firstReg[reqs[r].body.username]

\* a second registration of a taken username with another password has been
\* turned away while a further registration of that username is in flight
C4_Witness ==
    \E r \in Reqs, q \in Reqs :
       /\ Answered(r, "POST /register")
       /\ reqs[r].resp = Redirect("/register")
       /\ reqs[r].body.password \in Passwords
       /\ firstReg[reqs[r].body.username] \notin {"", reqs[r].body.password}
       /\ reqs[q].pc = "inserting"
       /\ reqs[q].body.username = reqs[r].body.username

\* C5: a GET /profile of a request whose session holds no user record is
\* answered with status 401 and the text "Not authenticated", and the profile
\* page is not rendered.
C5_ProfileUnauthenticated ==
    \A r \in Reqs :
       (Answered(r, "GET /profile") /\ reqs[r].sess.user = NoUser)
          => /\ reqs[r].resp = Send(401, "Not authenticated")
             /\ reqs[r].resp.view # "pages/profile"

\* C6 as stated: when a GET /logout of a logged-in client has been answered
\* with the logout page, the session of that request is absent from the
\* session store.
C6_LogoutEndsSession ==
    \A r \in Reqs :
       (Answered(r, "GET /logout") /\ reqs[r].resp.view = "pages/logout")
          => ~sessions[reqs[r].sess.id].present

\* C6 as amended: when the destroy of a GET /logout succeeds the session is
\* absent from the store; an absent session comes back only by a POST /login
\* on that session that succeeds (one in flight before the destroy included);
\* a request that arrives while its client's session is absent carries no
\* user record; and the discover and profile pages are rendered only for a
\* request that carries one.
C6_LogoutDestroys ==
    /\ [][\A r \in Reqs :
             (/\ reqs[r].pc = "loaded"
              /\ reqs'[r].pc = "destroying"
              /\ reqs'[r].err = "")
                => ~sessions'[reqs[r].sess.id].present]_vars
    /\ [][\A sid \in Sids :
             (~sessions[sid].present /\ sessions'[sid].present)
                => \E r \in Reqs :
                      /\ AnsweredNow(r, "POST /login")
                      /\ reqs'[r].resp = Redirect("/discover")
                      /\ reqs'[r].sess.id = sid]_vars
    /\ [][\A r \in Reqs :
             (/\ reqs[r].pc = "idle"
              /\ reqs'[r].pc = "loaded"
              /\ ~HoldsUser(cookie[reqs'[r].client]))
                => reqs'[r].sess.user = NoUser]_vars
    /\ [](\A r \in Reqs :
             (/\ reqs[r].pc = "done"
              /\ reqs[r].resp.kind = "render"
              /\ reqs[r].resp.view \in {"pages/discover", "pages/profile"})
                => reqs[r].sess.user # NoUser)

\* the logout page has been sent, the session is gone, and a request of the
\* same client that arrived after the destroy carries no user record
C6_Witness ==
    \E r \in Reqs, q \in Reqs :
       /\ Answered(r, "GET /logout")
       /\ reqs[r].resp.view = "pages/logout"
       /\ ~sessions[reqs[r].sess.id].present
       /\ reqs[q].pc = "loaded"
       /\ reqs[q].client = reqs[r].client
       /\ reqs[q].route \in {"GET /discover", "GET /profile"}
       /\ reqs[q].sess.user = NoUser

\* C7: POST /register answers with a redirect to /login exactly when the hash
\* was computed and the row {username, hash} was inserted; on a hash error, a
\* taken username or an unavailable store it answers with a redirect to
\* /register and the users table is unchanged.
C7_RegisterAnswers ==
    [][\A r \in Reqs :
          AnsweredNow(r, "POST /register")
             => LET row == reqs[r].local
                    inserted ==
                       /\ reqs[r].pc = "inserting"
                       /\ row.username = reqs'[r].body.username
                       /\ BcryptCompare(reqs'[r].body.password, row.password)
                       /\ row \notin users
                       /\ users' = users \cup {row}
                IN  /\ \/ reqs'[r].resp = Redirect("/login") /\ inserted
                       \/ reqs'[r].resp = Redirect("/register")
                             /\ users' = users
                    /\ (\/ reqs'[r].err # ""
                        \/ UsernameTaken(users, reqs'[r].body.username))
                          => reqs'[r].resp = Redirect("/register")]_vars

\* a registration of a taken username has been turned away
C7_Witness ==
    \E r \in Reqs :
       /\ Answered(r, "POST /register")
       /\ reqs[r].err = "store"
       /\ reqs[r].resp = Redirect("/register")
       /\ UsernameTaken(users, reqs[r].body.username)
       /\ Cardinality(users) = Cardinality(Users)

\* C8 as stated: a POST /login whose username has no row (the lookup itself
\* succeeding) renders the login page with "Username not found. Please
\* register." and the error flag, does not redirect, and the request's
\* session holds no user record.
C8_UnknownUsername ==
    \A r \in Reqs :
       (/\ Answered(r, "POST /login")
        /\ SelectRows(users, reqs[r].body.username) = {}
        /\ reqs[r].err = "")
          => /\ reqs[r].resp =
                   Render("pages/login",
                          "Username not found. Please register.", TRUE, "")
             /\ reqs[r].resp.kind # "redirect"
             /\ reqs[r].sess.user = NoUser

\* C8 as amended: such a POST /login renders that page with that message and
\* the error flag, does not redirect, and leaves the session store, the
\* cookie and the request's session as they were (a client that was logged
\* in keeps its user record).
C8_UnknownUsernameKeepsSession ==
    [][\A r \in Reqs :
          (/\ AnsweredNow(r, "POST /login")
           /\ SelectRows(users, reqs[r].body.username) = {}
           /\ reqs'[r].err = "")
             => /\ reqs'[r].resp =
                      Render("pages/login",
                             "Username not found. Please register.", TRUE, "")
                /\ reqs'[r].resp.kind # "redirect"
                /\ sessions' = sessions
                /\ cookie' = cookie
                /\ reqs'[r].sess = reqs[r].sess]_vars

\* a logged-in client has posted an unknown username
C8_Witness ==
    \E r \in Reqs :
       /\ Answered(r, "POST /login")
       /\ SelectRows(users, reqs[r].body.username) = {}
       /\ reqs[r].resp.message = "Username not found. Please register."
       /\ reqs[r].sess.user # NoUser
       /\ HoldsUser(reqs[r].sess.id)

\* C9: a POST /login with a registered username and a password that does not
\* match renders the login page of the other failure branches, pages/login,
\* with "Incorrect username or password." and the error flag.
C9_MismatchRendersLogin ==
    \A r \in Reqs :
       (/\ Answered(r, "POST /login")
        /\ reqs[r].err = ""
        /\ reqs[r].body.password \in Passwords
        /\ \E row \in SelectRows(users, reqs[r].body.username) :
              ~BcryptCompare(reqs[r].body.password, row.password))
          => reqs[r].resp =
                Render("pages/login", "Incorrect username or password.",
                       TRUE, "")

\* C10: when the lookup or the verification of a POST /login fails, the
\* handler renders pages/login with the generic message and the error flag,
\* nothing of the error reaches the client, and the session store, the cookie
\* and the request's session are as they were.
C10_LoginFailureHandled ==
    [][\A r \in Reqs :
          AnsweredNow(r, "POST /login")
             => /\ (reqs[r].pc = "comparing"
                       /\ reqs[r].body.password = Undefined)
                      => reqs'[r].err = "hash"
                /\ reqs'[r].err \in {"store", "hash"}
                      => /\ reqs'[r].resp =
                               Render("pages/login",
                                      "An error occurred during login. Please try again.",
                                      TRUE, "")
                         /\ sessions' = sessions
                         /\ cookie' = cookie
                         /\ reqs'[r].sess = reqs[r].sess]_vars

\* the verification has thrown for a registered username
C10_Witness ==
    \E r \in Reqs :
       /\ Answered(r, "POST /login")
       /\ reqs[r].err = "hash"
       /\ UsernameTaken(users, reqs[r].body.username)
       /\ reqs[r].resp.kind = "render"
       /\ reqs[r].resp.error

\* C11: for a client with no session user, GET /, GET /login, GET /register,
\* POST /register and POST /login are answered by their own handlers (the
\* landing redirect, the two pages, the outcome of the insert, the outcome of
\* the lookup and verification) and never by the gate, while GET /discover,
\* GET /logout and GET /profile are answered by the gate with a redirect to
\* /login and their handlers do not run (no page, no 401, no destroy).
C11_AccessMatrix ==
    \A r \in Reqs :
       reqs[r].pc = "done" =>
          /\ reqs[r].route = "GET /" => reqs[r].resp = Redirect("/login")
          /\ reqs[r].route = "GET /login"
                => reqs[r].resp = Render("pages/login", "", FALSE, "")
          /\ reqs[r].route = "GET /register"
                => reqs[r].resp = Render("pages/register", "", FALSE, "")
          /\ reqs[r].route = "POST /register"
                => \/ /\ reqs[r].resp = Redirect("/login")
                      /\ reqs[r].err = ""
                      /\ UsernameTaken(users, reqs[r].body.username)
                   \/ /\ reqs[r].resp = Redirect("/register")
                      /\ reqs[r].err \in {"hash", "store"}
          /\ reqs[r].route = "POST /login"
                => /\ reqs[r].resp \in {LoginNotFound, LoginMismatch,
                                        LoginError, LoginSuccess}
                   /\ reqs[r].resp # AuthRedirect
          /\ (/\ reqs[r].route \in GatedRoutes
              /\ reqs[r].sess.live
              /\ reqs[r].sess.user = NoUser)
                => /\ reqs[r].resp = AuthRedirect
                   /\ reqs[r].err = ""
                   /\ reqs[r].sess.id = NoSid

\* a GET /logout of a client with no session user has been stopped by the
\* gate while another client's session holds a user record
C11_Witness ==
    \E r \in Reqs :
       /\ Answered(r, "GET /logout")
       /\ reqs[r].sess.live
       /\ reqs[r].sess.user = NoUser
       /\ reqs[r].resp = Redirect("/login")
       /\ \A n \in 1 .. MaxSid : ~HoldsUser(<<reqs[r].client, n>>)
       /\ \E sid \in Sids : HoldsUser(sid)

\* C12: a GET /logout that passed the gate is answered, when the destroy
\* reported an error, with status 500 and the text "Could not log out." and
\* no page, and when the destroy succeeded, with the logout page and the
\* message "Logged out Successfully"; the answer is one of these two and
\* never the other one.
C12_LogoutAnswers ==
    \A r \in Reqs :
       (Answered(r, "GET /logout") /\ ~reqs[r].sess.live)
          => /\ reqs[r].err \in {"destroy", ""}
             /\ reqs[r].err = "destroy"
                   => /\ reqs[r].resp = Send(500, "Could not log out.")
                      /\ reqs[r].resp.kind # "render"
                      /\ reqs[r].resp.view = ""
             /\ reqs[r].err = ""
                   => /\ reqs[r].resp =
                            Render("pages/logout", "Logged out Successfully",
                                   FALSE, "")
                      /\ reqs[r].resp.status # 500

\* a logout whose destroy failed has been answered with the 500 text, and
\* the session is still in the store
C12_Witness ==
    \E r \in Reqs :
       /\ Answered(r, "GET /logout")
       /\ ~reqs[r].sess.live
       /\ reqs[r].err = "destroy"
       /\ reqs[r].resp.status = 500
       /\ reqs[r].resp.message = "Could not log out."
       /\ HoldsUser(reqs[r].sess.id)

\* C13 as stated: whenever the profile page has been rendered for a request,
\* the username passed to the page is the username verified by the most
\* recent POST /login that succeeded on the session of that request.
C13_ProfileUsername ==
    \A r \in Reqs :
       (Answered(r, "GET /profile") /\ reqs[r].resp.view = "pages/profile")
          => /\ reqs[r].sess.id \in Sids
             /\ reqs[r].resp.username = lastLogin[reqs[r].sess.id]

\* C13 as amended: the session a request carries is the stored session as it
\* was when the request arrived, and the user record in it is that of the
\* username verified by the most recent POST /login that had succeeded on
\* that session by then, on a session issued to the client of the request;
\* the profile page is rendered with the username of that record and no
\* other.
C13_ProfileUsernameAsLoaded ==
    /\ [][\A r \in Reqs :
             (/\ reqs[r].pc = "idle"
              /\ reqs'[r].pc = "loaded"
              /\ reqs'[r].sess.user # NoUser)
                => /\ reqs'[r].sess.id \in Sids
                   /\ reqs'[r].sess.id[1] = reqs'[r].client
                   /\ reqs'[r].sess.user.username =
                         lastLogin[reqs'[r].sess.id]]_vars
    /\ [](\A r \in Reqs :
             (/\ Answered(r, "GET /profile")
              /\ reqs[r].resp.view = "pages/profile")
                => /\ reqs[r].resp.username = reqs[r].sess.user.username
                   /\ reqs[r].resp.username \in Users
                   /\ UsernameTaken(users, reqs[r].resp.username))

\* the profile page has been rendered with the username the request's
\* session held on arrival, after a POST /login of another username has
\* succeeded on that session
C13_Witness ==
    \E r \in Reqs :
       /\ Answered(r, "GET /profile")
       /\ reqs[r].resp.view = "pages/profile"
       /\ reqs[r].resp.username = reqs[r].sess.user.username
       /\ lastLogin[reqs[r].sess.id] \in Users \ {reqs[r].resp.username}
       /\ HoldsUser(reqs[r].sess.id)
       /\ sessions[reqs[r].sess.id].user.username =
             lastLogin[reqs[r].sess.id]

\* C14: when a POST /login has been answered with the redirect to /discover,
\* the user record of the submitted username is in the request's session and
\* that session, with that record, is already in the session store, so that
\* a GET /discover presenting the session's id after the redirect loads the
\* user record and passes the gate.
C14_PersistBeforeRedirect ==
    \A r \in Reqs :
       (Answered(r, "POST /login") /\ reqs[r].resp = Redirect("/discover"))
          => /\ reqs[r].sess.user # NoUser
             /\ reqs[r].sess.user.username = reqs[r].body.username
             /\ reqs[r].sess.id \in Sids
             /\ sessions[reqs[r].sess.id] =
                   [present |-> TRUE, user |-> reqs[r].sess.user]
             /\ LoadSession(sessions, reqs[r].sess.id).user = reqs[r].sess.user
             /\ AuthPasses(LoadSession(sessions, reqs[r].sess.id))

\* the redirect of a first login of a client has been sent while a GET
\* /discover of the same client, which arrived before the session was
\* persisted, still carries no user record
C14_Witness ==
    \E r \in Reqs, q \in Reqs :
       /\ Answered(r, "POST /login")
       /\ reqs[r].resp = Redirect("/discover")
       /\ cookie[reqs[r].client] = reqs[r].sess.id
       /\ AuthPasses(LoadSession(sessions, cookie[reqs[r].client]))
       /\ reqs[q].pc = "loaded"
       /\ reqs[q].route = "GET /discover"
       /\ reqs[q].client = reqs[r].client
       /\ ~AuthPasses(reqs[q].sess)

\* two GET /logout requests on one session that both passed the gate and
\* have both run their destroy
BothDestroyed(r, q) ==
    /\ r # q
    /\ reqs[r].route = "GET /logout"
    /\ reqs[q].route = "GET /logout"
    /\ reqs[r].pc \in {"destroying", "done"}
    /\ reqs[q].pc \in {"destroying", "done"}
    /\ ~reqs[r].sess.live
    /\ ~reqs[q].sess.live
    /\ reqs[r].sess.id = reqs[q].sess.id

\* this step is the destroy of GET /logout r, which passed the gate, on a
\* session that the destroy of GET /logout q has already removed
SecondDestroy(r, q) ==
    /\ r # q
    /\ reqs[q].route = "GET /logout"
    /\ reqs[q].pc \in {"destroying", "done"}
    /\ ~reqs[q].sess.live
    /\ reqs[q].err = ""
    /\ reqs[r].route = "GET /logout"
    /\ reqs[r].pc = "loaded"
    /\ AuthPasses(reqs[r].sess)
    /\ reqs[r].sess.id = reqs[q].sess.id
    /\ ~sessions[reqs[r].sess.id].present
    /\ reqs'[r].pc = "destroying"

C16_SessionsIndependent ==
    [][\A sid \in Sids :
          sessions'[sid] # sessions[sid]
             => /\ \E r \in Reqs :
                      /\ reqs[r].pc \in {"loaded", "comparing"}
                      /\ reqs'[r].pc \in {"destroying", "done"}
                      /\ reqs[r].route \in {"POST /login", "GET /logout"}
                      /\ reqs'[r].sess.id = sid
                      /\ reqs[r].client = sid[1]
                /\ \A other \in Sids \ {sid} :
                      sessions'[other] = sessions[other]]_vars

\* user U was logged in on two sessions; the logout of one of them has been
\* answered with the logout page, that session is gone, and the other
\* session still holds the record of U
C16_Witness ==
    \E r \in Reqs, other \in Sids :
       /\ Answered(r, "GET /logout")
       /\ reqs[r].resp.view = "pages/logout"
       /\ ~sessions[reqs[r].sess.id].present
       /\ other # reqs[r].sess.id
       /\ HoldsUser(other)
       /\ sessions[other].user.username = lastLogin[reqs[r].sess.id]

\* C17: no step removes or alters a row of the users table, and the table
\* changes only in the step that answers a POST /register with the redirect
\* to /login, which adds exactly one row, that of the submitted username;
\* POST /login, GET /logout, GET /discover, GET /profile and registrations
\* answered with the redirect to /register leave the table as it was.
C17_UsersOnlyGrow ==
    [][/\ users \subseteq users'
       /\ users' # users
             => \E r \in Reqs :
                   /\ AnsweredNow(r, "POST /register")
                   /\ reqs'[r].resp = Redirect("/login")
                   /\ Cardinality(users') = Cardinality(users) + 1
                   /\ \A row \in users' \ users :
                         row.username = reqs[r].body.username
       /\ \A r \in Reqs :
             (/\ reqs[r].pc # "done"
              /\ reqs'[r].pc = "done"
              /\ \/ reqs'[r].route # "POST /register"
                 \/ reqs'[r].resp = Redirect("/register"))
                => users' = users]_vars

\* a registration has added the second row while the first row, whose
\* user is logged in, is still there
C17_Witness ==
    \E r \in Reqs, row \in users :
       /\ Answered(r, "POST /register")
       /\ reqs[r].resp = Redirect("/login")
       /\ row.username # reqs[r].body.username
       /\ \E sid \in Sids : HoldsUser(sid) /\ sessions[sid].user = row
       /\ Cardinality(users) = 2

\* C18: the data handed to a rendered page never holds a password hash: a
\* page gets at most a message, the error flag and a username (the profile
\* page the username of the request's session and nothing else of its user
\* record), while the session of the request may hold the full users row.
C18_NoHashRendered ==
    \A r \in Reqs :
       (reqs[r].pc = "done" /\ reqs[r].resp.kind = "render")
          => /\ reqs[r].resp.hash = NoHash
             /\ \A row \in users : reqs[r].resp.hash # row.password
             /\ reqs[r].resp.username \in {"", reqs[r].sess.user.username}
             /\ reqs[r].resp.view = "pages/profile"
                   => /\ reqs[r].resp.username = reqs[r].sess.user.username
                      /\ reqs[r].resp.message = ""
             /\ reqs[r].resp.view # "pages/profile"
                   => reqs[r].resp.username = ""

\* the profile page has been rendered for a request whose session holds the
\* users row with its password hash
C18_Witness ==
    \E r \in Reqs :
       /\ Answered(r, "GET /profile")
       /\ reqs[r].resp.view = "pages/profile"
       /\ reqs[r].sess.user \in users
       /\ reqs[r].sess.user.password # NoHash
       /\ sessions[reqs[r].sess.id].user.password = reqs[r].sess.user.password
       /\ reqs[r].resp.hash = NoHash

\* C19: every stored session that holds a user record holds a row of the
\* users table, the row of the username that the last successful POST /login
\* on that session submitted; and a step gives a stored session a user
\* record only by answering a POST /login whose bcrypt.compare matched, with
\* the redirect to /discover and with the row that login looked up, so that
\* no registration, failed login, discover, profile or logout request sets
\* one.
C19_SessionUserFromLogin ==
    /\ [](\A sid \in Sids :
             HoldsUser(sid)
                => /\ sessions[sid].user \in users
                   /\ UsernameTaken(users, sessions[sid].user.username)
                   /\ sessions[sid].user.username = lastLogin[sid])
    /\ [](\A sid \in Sids :
             sessions[sid].present => sessions[sid].user # NoUser)
    /\ [][\A sid \in Sids :
             (sessions'[sid].user # sessions[sid].user
                 /\ sessions'[sid].user # NoUser)
                => \E r \in Reqs :
                      /\ reqs[r].pc = "comparing"
                      /\ AnsweredNow(r, "POST /login")
                      /\ reqs'[r].resp = Redirect("/discover")
                      /\ reqs'[r].sess.id = sid
                      /\ sessions'[sid].user = reqs[r].local
                      /\ reqs[r].local.username = reqs[r].body.username
                      /\ BcryptCompare(reqs[r].body.password,
                                       reqs[r].local.password)]_vars

\* a session holds the row of one user while a login of the other username
\* with a password that does not match has been answered on that session and
\* a registration of the same client is in flight
C19_Witness ==
    \E sid \in Sids, r \in Reqs, q \in Reqs :
       /\ HoldsUser(sid)
       /\ sessions[sid].user \in users
       /\ Answered(r, "POST /login")
       /\ reqs[r].resp = LoginMismatch
       /\ reqs[r].sess.id = sid
       /\ reqs[r].body.username # sessions[sid].user.username
       /\ reqs[q].pc = "inserting"
       /\ reqs[q].client = sid[1]

\* C20: provided every awaited operation settles, every request that has
\* been accepted is answered; a request has an answer exactly when it has
\* been answered, an answer once given is never replaced by another one,
\* and the only thing that follows an answer is its delivery.
C20_OneResponse ==
    /\ \A r \in Reqs :
          (reqs[r].pc \notin {"idle", "done"}) ~> (reqs[r].pc = "done")
    /\ [](\A r \in Reqs :
             /\ reqs[r].pc = "done" <=> reqs[r].resp # NoResp
             /\ reqs[r].pc = "done"
                   => reqs[r].resp.kind \in {"redirect", "render", "send"})
    /\ [][\A r \in Reqs :
             /\ reqs[r].pc = "done"
                   => reqs'[r] = reqs[r] \/ reqs'[r] = IdleReq
             /\ reqs'[r].resp # reqs[r].resp
                   => reqs[r].resp = NoResp \/ reqs'[r].resp = NoResp]_vars

\* a login whose password does not match and a logout whose destroy failed
\* were in flight together, and the logout has been answered
C20_Witness ==
    \E r \in Reqs, q \in Reqs :
       /\ Answered(r, "GET /logout")
       /\ reqs[r].err = "destroy"
       /\ reqs[r].resp.kind = "send"
       /\ reqs[q].pc = "comparing"
       /\ reqs[q].body.password \in Passwords
       /\ ~BcryptCompare(reqs[q].body.password, reqs[q].local.password)

====
